---------------------------- MODULE Spec2Model ----------------------------
(***************************************************************************)
(* Model of the hardware-link / job-execution subsystem of src/Code1.jsx   *)
(* (the App component): the PIN gate, connectToIBM, executeRealTeleport,   *)
(* runLocalSimulation, captureArtifact, runDecipher and the Event Log.     *)
(*                                                                         *)
(* One action is one run of a handler or callback on the single-threaded   *)
(* event loop: the state setters a handler calls are applied together when *)
(* it finishes, functional updates (addLog) chain in call order.  A user   *)
(* action is enabled when the control that triggers it is rendered and not *)
(* disabled in the current state.                                          *)
(*                                                                         *)
(* Strings that the code slices or concatenates are sequences of           *)
(* one-character strings.  Weights are integers in units of 10^-4.  The    *)
(* wall-clock `time` field of a log entry or artifact is not modelled.     *)
(***************************************************************************)
EXTENDS Integers, Sequences, FiniteSets, TLC

VARIABLES
    isLocked, pinBuffer, isBooting,          \* lines 33-35
    ibmToken, ibmAccessToken, hardwareStatus, \* lines 38-40
    analysis, isAnalyzing, photos,           \* lines 43-46
    localRegister, qubitWeight, lastBitstring, \* lines 49-51
    activeMode, isTeleporting, logs,         \* lines 54-56
    clock,        \* Date.now(): source of log and artifact ids
    bootTimer,    \* the setTimeout of line 163 is pending
    timers,       \* pending job timers (lines 121, 144) in expiry order
    halfElapsed,  \* a local timer set since the last remote dispatch has fired
    authCalls,    \* fetches of line 79 in flight
    decipherCalls, \* fetches of line 238 in flight
    epoch         \* the value of clock from which Budget counts entries

gate    == <<isLocked, pinBuffer, isBooting, bootTimer>>
link    == <<ibmToken, ibmAccessToken, hardwareStatus, authCalls>>
publ    == <<localRegister, qubitWeight, lastBitstring>>
jobs    == <<isTeleporting, timers, halfElapsed>>
qml     == <<analysis, isAnalyzing, decipherCalls>>
vars    == <<gate, link, publ, jobs, qml, photos, activeMode, logs, clock, epoch>>

-----------------------------------------------------------------------------
(* Bounds of the model *)

\* log entries written after construction (see Budget)
MaxLogs == 7
\* job timers pending at once
MaxTimers == 2
\* artifacts kept in the gallery at once
MaxPhotos == 1
\* the register draws are numbered 0 .. MaxDraw (see RegisterDraws)
MaxDraw == 3

-----------------------------------------------------------------------------
(* Program constants *)

BIT_COUNT == 10
\* (1 / Math.pow(Math.PI, 2)).toFixed(8) = "0.10132118", in units of 10^-8
PI_SQUARED_INV == 10132118
ACCESS_PIN == <<"5", "2", "8", "0">>
PARITY_KEY == <<"0", "0", "*", "*", "1", "1", "-", "-", "1">>
LOG_CAPACITY == 30
REMOTE_DELAY == 3000
LOCAL_DELAY == 1500

-----------------------------------------------------------------------------
(* JavaScript values *)

Null == [tag |-> "null"]
Undefined == [tag |-> "undefined"]
Str(s) == [tag |-> "string", chars |-> s]

Min(a, b) == IF a <= b THEN a ELSE b

\* String.prototype.substring(from, to) with 0 <= from <= to
Substring(s, from, to) == SubSeq(s, from + 1, Min(to, Len(s)))

\* String(n) of a one-digit number
DigitChar(n) ==
    CASE n = 0 -> "0" [] n = 1 -> "1" [] n = 2 -> "2" [] n = 3 -> "3"
      [] n = 4 -> "4" [] n = 5 -> "5" [] n = 6 -> "6" [] n = 7 -> "7"
      [] n = 8 -> "8" [] n = 9 -> "9"

\* Array.prototype.join() with its default separator
RECURSIVE JoinWithCommas(_)
JoinWithCommas(bits) ==
    IF bits = <<>> THEN <<>>
    ELSE IF Len(bits) = 1 THEN <<DigitChar(Head(bits))>>
    ELSE <<DigitChar(Head(bits)), ",">> \o JoinWithCommas(Tail(bits))

\* Array.prototype.join("") of an array of digits
RECURSIVE Join(_)
Join(bits) ==
    IF bits = <<>> THEN <<>>
    ELSE <<DigitChar(Head(bits))>> \o Join(Tail(bits))

\* bits.reduce((a, b) => a + b, 0)
RECURSIVE SumBits(_)
SumBits(bits) ==
    IF bits = <<>> THEN 0 ELSE Head(bits) + SumBits(Tail(bits))

\* Number.prototype.toFixed(4) of v / (BIT_COUNT * 10^8), in units of 10^-4
ToFixed4(v) == (v + (BIT_COUNT * 10000) \div 2) \div (BIT_COUNT * 10000)

DampedWeightTruncated(bits) ==
    (SumBits(bits) * (100000000 - PI_SQUARED_INV)) \div (BIT_COUNT * 10000)

\* parseFloat((weight * (1 - PI_SQUARED_INV)).toFixed(4)) with
\* weight = bits.reduce(...) / BIT_COUNT
DampedWeight(bits) == ToFixed4(SumBits(bits) * (100000000 - PI_SQUARED_INV))

-----------------------------------------------------------------------------
(* Inputs *)

\* the keypad of line 288
PinDigits == 0 .. 9

\* what the user may have typed into the token field (line 328)
Credentials == { <<>>, <<"a", "b", "c">> }

\* authData.id of a 2xx response: shorter and longer than the 8-character preview
SessionIds ==
    { <<"i", "d", "7">>,
      <<"s", "e", "s", "s", "i", "o", "n", "-", "4", "2">> }

\* String(response.status) and body text of a non-2xx response
HttpErrors == { <<"4", "0", "1">> }
ErrTexts == { <<"d", "e", "n", "i", "e", "d">> }

\* the mode buttons of lines 412-418 that the model presses
Modes == { "STANDARD", "HEAT" }

\* data.candidates?.[0]?.content?.parts?.[0]?.text of the analysis reply
Replies == { Undefined, Str(<<"o", "k">>) }

\* Array.from({ length: BIT_COUNT }, () => Math.random() > 0.5 ? 1 : 0).
\* Draw n is the register whose digits, first digit least significant, are
\* the binary digits of 341 * n modulo 2^BIT_COUNT (341 is odd, so the draws
\* run through every register): 0000000000, 1010101010, 0101010101,
\* 1111111111, 0010101010, ...
Draw(n) ==
    [i \in 1 .. BIT_COUNT |-> (((341 * n) % (2 ^ BIT_COUNT)) \div (2 ^ (i - 1))) % 2]
RegisterDraws == { Draw(n) : n \in 0 .. MaxDraw }

-----------------------------------------------------------------------------
(* Event Log *)

Entry(id, type, msg, arg, details) ==
    [id |-> id, type |-> type, msg |-> msg, arg |-> arg, details |-> details]

AddLogUncapped(prev, id, type, msg, arg, details) ==
    <<Entry(id, type, msg, arg, details)>> \o prev

\* setLogs(prev => [{...}, ...prev].slice(0, 30)); msg is the fixed text of
\* the message and arg the value interpolated into it
AddLog(prev, id, type, msg, arg, details) ==
    SubSeq(<<Entry(id, type, msg, arg, details)>> \o prev,
           1, Min(LOG_CAPACITY, Len(prev) + 1))

\* entries that the pending callbacks and continuations may still write
Reserved == Len(timers) + 2 * Len(authCalls) + decipherCalls

\* a user action that, with its callback or continuation, writes up to n
\* entries is taken while all entries written stay within MaxLogs
Budget(n) == (clock - epoch) + Reserved + n <= MaxLogs

\* the main screen is rendered (the early returns of lines 266 and 277)
MainScreen == ~isBooting /\ ~isLocked

-----------------------------------------------------------------------------
(* Construction: the useState initial values *)

Init ==
    /\ isLocked = TRUE
    /\ pinBuffer = <<>>
    /\ isBooting = FALSE
    /\ bootTimer = FALSE
    /\ ibmToken = <<>>
    /\ ibmAccessToken = Null
    /\ hardwareStatus = "DISCONNECTED"
    /\ authCalls = <<>>
    /\ analysis = Str(<<>>)
    /\ isAnalyzing = FALSE
    /\ decipherCalls = 0
    /\ photos = <<>>
    /\ localRegister = [i \in 1 .. BIT_COUNT |-> 0]
    /\ qubitWeight = 5000
    /\ lastBitstring = <<"0", "0", "0", "0", "0", "0", "0", "0", "0", "0">>
    /\ activeMode = "STANDARD"
    /\ isTeleporting = FALSE
    /\ timers = <<>>
    /\ halfElapsed = FALSE
    /\ logs = << [id |-> 0, type |-> "SEC",
                  msg |-> "Quantum Kernel Locked. Enter PIN.",
                  arg |-> <<>>, details |-> Undefined] >>
    /\ clock = 1
    /\ epoch = 1

-----------------------------------------------------------------------------
(* Access gate *)

HandlePinEntryAnyFour(num) ==
    /\ isLocked /\ ~isBooting
    /\ Budget(1)
    /\ IF Len(pinBuffer) < 4
       THEN LET nextPin == pinBuffer \o <<DigitChar(num)>> IN
            IF Len(nextPin) = 4
            THEN /\ pinBuffer' = nextPin
                 /\ logs' = AddLog(logs, clock, "SEC",
                                   "Nexus Handshake: Verified.", <<>>, Null)
                 /\ clock' = clock + 1
                 /\ isBooting' = TRUE
                 /\ bootTimer' = TRUE
            ELSE /\ pinBuffer' = nextPin
                 /\ UNCHANGED <<logs, clock, isBooting, bootTimer>>
       ELSE UNCHANGED <<pinBuffer, logs, clock, isBooting, bootTimer>>
    /\ UNCHANGED <<epoch, isLocked, link, publ, jobs, qml, photos, activeMode>>

\* handlePinEntry(num), from the keypad of the lock screen
HandlePinEntry(num) ==
    /\ isLocked /\ ~isBooting
    /\ Budget(1)
    /\ IF Len(pinBuffer) < 4
       THEN LET nextPin == pinBuffer \o <<DigitChar(num)>> IN
            IF nextPin = ACCESS_PIN
            THEN /\ pinBuffer' = nextPin
                 /\ logs' = AddLog(logs, clock, "SEC",
                                   "Nexus Handshake: Verified.", <<>>, Null)
                 /\ clock' = clock + 1
                 /\ isBooting' = TRUE
                 /\ bootTimer' = TRUE
            ELSE IF Len(nextPin) = 4
            THEN /\ pinBuffer' = <<>>
                 /\ logs' = AddLog(logs, clock, "ERR", "Invalid Hash.", <<>>, Null)
                 /\ clock' = clock + 1
                 /\ UNCHANGED <<isBooting, bootTimer>>
            ELSE /\ pinBuffer' = nextPin
                 /\ UNCHANGED <<logs, clock, isBooting, bootTimer>>
       ELSE UNCHANGED <<pinBuffer, logs, clock, isBooting, bootTimer>>
    /\ UNCHANGED <<epoch, isLocked, link, publ, jobs, qml, photos, activeMode>>

\* the callback of the setTimeout of line 163
BootComplete ==
    /\ bootTimer
    /\ bootTimer' = FALSE
    /\ isLocked' = FALSE
    /\ isBooting' = FALSE
    /\ UNCHANGED <<epoch, pinBuffer, link, publ, jobs, qml, photos, activeMode,
                   logs, clock>>

-----------------------------------------------------------------------------
(* Link Session: authentication *)

TokenPanelAlwaysShown == TRUE

\* line 323: the token panel is rendered instead of the Teleport button
TokenPanelShown == hardwareStatus \in {"DISCONNECTED", "AUTHENTICATING"}

LinkNeverDisabled == FALSE

\* line 334: the LINK button is disabled
LinkDisabled == hardwareStatus = "AUTHENTICATING"

RemoveAt(q, i) == SubSeq(q, 1, i - 1) \o SubSeq(q, i + 1, Len(q))

\* onChange of the token field (line 328)
SetIbmToken(value) ==
    /\ MainScreen /\ TokenPanelShown
    /\ ibmToken' = value
    /\ UNCHANGED <<epoch, gate, ibmAccessToken, hardwareStatus, authCalls, publ, jobs,
                   qml, photos, activeMode, logs, clock>>

ConnectToIBMChecksLate ==
    /\ MainScreen /\ TokenPanelShown /\ ~LinkDisabled
    /\ hardwareStatus' = "AUTHENTICATING"
    /\ IF ibmToken = <<>>
       THEN /\ Budget(1)
            /\ logs' = AddLog(logs, clock, "ERR", "Qiskit Token Required.", <<>>, Null)
            /\ UNCHANGED authCalls
       ELSE /\ Budget(3)
            /\ logs' = AddLog(logs, clock, "IBM",
                              "Initiating REST Handshake...", <<>>, Null)
            /\ authCalls' = Append(authCalls, [apiToken |-> ibmToken])
    /\ clock' = clock + 1
    /\ UNCHANGED <<epoch, gate, ibmToken, ibmAccessToken, publ, jobs, qml, photos,
                   activeMode>>

\* connectToIBM up to the await of line 79
ConnectToIBM ==
    /\ MainScreen /\ TokenPanelShown /\ ~LinkDisabled
    /\ IF ibmToken = <<>>
       THEN /\ Budget(1)
            /\ logs' = AddLog(logs, clock, "ERR", "Qiskit Token Required.", <<>>, Null)
            /\ UNCHANGED <<hardwareStatus, authCalls>>
       ELSE /\ Budget(3)
            /\ hardwareStatus' = "AUTHENTICATING"
            /\ logs' = AddLog(logs, clock, "IBM",
                              "Initiating REST Handshake...", <<>>, Null)
            /\ authCalls' = Append(authCalls, [apiToken |-> ibmToken])
    /\ clock' = clock + 1
    /\ UNCHANGED <<epoch, gate, ibmToken, ibmAccessToken, publ, jobs, qml, photos,
                   activeMode>>

AccessIdPrefix == <<"A", "c", "c", "e", "s", "s", "_", "I", "D", ":", " ">>
Ellipsis == <<".", ".", ".">>

AuthCatchKeepsStatus(i) ==
    /\ UNCHANGED hardwareStatus
    /\ logs' = AddLog(AddLog(logs, clock, "ERR",
                             "IBM Bridge Blocked (CORS/Network)", <<>>, Null),
                      clock + 1, "DEBUG",
                      "Browser blocked cross-origin request to IBM Servers.",
                      <<>>, Null)
    /\ clock' = clock + 2
    /\ authCalls' = RemoveAt(authCalls, i)

\* the catch block of lines 98-103
AuthCatch(i) ==
    /\ hardwareStatus' = "DISCONNECTED"
    /\ logs' = AddLog(AddLog(logs, clock, "ERR",
                             "IBM Bridge Blocked (CORS/Network)", <<>>, Null),
                      clock + 1, "DEBUG",
                      "Browser blocked cross-origin request to IBM Servers.",
                      <<>>, Null)
    /\ clock' = clock + 2
    /\ authCalls' = RemoveAt(authCalls, i)

AuthSuccessStoresPreview(i, id) ==
    /\ i \in 1 .. Len(authCalls)
    /\ ibmAccessToken' = Str(Substring(id, 0, 8))
    /\ hardwareStatus' = "READY"
    /\ logs' = AddLog(logs, clock, "IBM", "Authentication Successful.", <<>>,
                      Str(AccessIdPrefix \o Substring(id, 0, 8) \o Ellipsis))
    /\ clock' = clock + 1
    /\ authCalls' = RemoveAt(authCalls, i)
    /\ UNCHANGED <<epoch, gate, ibmToken, publ, jobs, qml, photos, activeMode>>

AuthSuccessLogsToken(i, id) ==
    /\ i \in 1 .. Len(authCalls)
    /\ ibmAccessToken' = Str(id)
    /\ hardwareStatus' = "READY"
    /\ logs' = AddLog(logs, clock, "IBM", "Authentication Successful.", <<>>,
                      Str(AccessIdPrefix \o Substring(authCalls[i].apiToken, 0, 8)
                            \o Ellipsis))
    /\ clock' = clock + 1
    /\ authCalls' = RemoveAt(authCalls, i)
    /\ UNCHANGED <<epoch, gate, ibmToken, publ, jobs, qml, photos, activeMode>>

\* response.ok and response.json() yields a body with a string id (lines 88-92)
AuthSuccess(i, id) ==
    /\ i \in 1 .. Len(authCalls)
    /\ ibmAccessToken' = Str(id)
    /\ hardwareStatus' = "READY"
    /\ logs' = AddLog(logs, clock, "IBM", "Authentication Successful.", <<>>,
                      Str(AccessIdPrefix \o Substring(id, 0, 8) \o Ellipsis))
    /\ clock' = clock + 1
    /\ authCalls' = RemoveAt(authCalls, i)
    /\ UNCHANGED <<epoch, gate, ibmToken, publ, jobs, qml, photos, activeMode>>

\* response.ok and the body has no id: lines 90-91 run, then
\* authData.id.substring throws and the catch block runs
AuthNoId(i) ==
    /\ i \in 1 .. Len(authCalls)
    /\ ibmAccessToken' = Undefined
    /\ AuthCatch(i)
    /\ UNCHANGED <<epoch, gate, ibmToken, publ, jobs, qml, photos, activeMode>>

\* response.json() (line 89) or response.text() (line 94) rejects
AuthBodyUnreadable(i, http) ==
    /\ i \in 1 .. Len(authCalls)
    /\ AuthCatch(i)
    /\ UNCHANGED <<epoch, gate, ibmToken, ibmAccessToken, publ, jobs, qml, photos,
                   activeMode>>

\* a non-2xx response with a text body (lines 93-97)
AuthRejected(i, status, errText) ==
    /\ i \in 1 .. Len(authCalls)
    /\ logs' = AddLog(logs, clock, "ERR", "IBM Rejected Token", status,
                      Str(Substring(errText, 0, 50)))
    /\ hardwareStatus' = "DISCONNECTED"
    /\ clock' = clock + 1
    /\ authCalls' = RemoveAt(authCalls, i)
    /\ UNCHANGED <<epoch, gate, ibmToken, ibmAccessToken, publ, jobs, qml, photos,
                   activeMode>>

\* fetch rejects: no response (CORS, network)
AuthUnreachable(i) ==
    /\ i \in 1 .. Len(authCalls)
    /\ AuthCatch(i)
    /\ UNCHANGED <<epoch, gate, ibmToken, ibmAccessToken, publ, jobs, qml, photos,
                   activeMode>>

-----------------------------------------------------------------------------
(* Job Executor *)

\* The pending job timers, in the order in which they expire.  A timer is
\* "remote" (line 121, REMOTE_DELAY), "local" (line 144, LOCAL_DELAY, set
\* since the last remote dispatch) or "stale" (a local one set before it).

\* where a timer of delay REMOTE_DELAY set now expires: after every pending one
SetRemoteTimer(q) ==
    Append([i \in 1 .. Len(q) |-> IF q[i] = "local" THEN "stale" ELSE q[i]],
           "remote")

\* where a timer of delay LOCAL_DELAY set now may expire: after every pending
\* one, or before the remote timer when less than LOCAL_DELAY may have passed
\* since that one was set
LocalSlots(q) ==
    {Len(q) + 1} \cup
    (IF /\ q # <<>>
        /\ q[Len(q)] = "remote"
        /\ ~halfElapsed
        /\ LOCAL_DELAY < REMOTE_DELAY
     THEN {Len(q)} ELSE {})

InsertAt(q, pos, x) == SubSeq(q, 1, pos - 1) \o <<x>> \o SubSeq(q, pos, Len(q))

\* runLocalSimulation up to the setTimeout of line 144
RunLocalSimulation(slot) ==
    /\ isTeleporting' = TRUE
    /\ timers' = InsertAt(timers, slot, "local")
    /\ UNCHANGED halfElapsed

DegradeToLocalSilently(slot) ==
    /\ RunLocalSimulation(slot)
    /\ UNCHANGED <<hardwareStatus, logs, clock>>

\* lines 108-112: the link is not READY
DegradeToLocal(slot) ==
    /\ logs' = AddLog(logs, clock, "WARN",
                      "Using Local Simulation (No IBM Link).", <<>>, Null)
    /\ clock' = clock + 1
    /\ RunLocalSimulation(slot)
    /\ UNCHANGED hardwareStatus

\* lines 114-134: the timer is set
DispatchRemote ==
    /\ isTeleporting' = TRUE
    /\ hardwareStatus' = "BUSY"
    /\ logs' = AddLog(logs, clock, "QASM", "Zenith Key Active: ", PARITY_KEY, Null)
    /\ clock' = clock + 1
    /\ timers' = SetRemoteTimer(timers)
    /\ halfElapsed' = FALSE

DispatchCatchLeavesBusy ==
    /\ isTeleporting' = FALSE
    /\ hardwareStatus' = "BUSY"
    /\ logs' = AddLog(AddLog(logs, clock, "QASM", "Zenith Key Active: ",
                             PARITY_KEY, Null),
                      clock + 1, "ERR", "Job Pipeline Interrupted.", <<>>, Null)
    /\ clock' = clock + 2
    /\ UNCHANGED <<timers, halfElapsed>>

\* lines 114-116, then the try block throws and the catch block of lines
\* 135-139 runs
DispatchCatch ==
    /\ isTeleporting' = FALSE
    /\ hardwareStatus' = "READY"
    /\ logs' = AddLog(AddLog(logs, clock, "QASM", "Zenith Key Active: ",
                             PARITY_KEY, Null),
                      clock + 1, "ERR", "Job Pipeline Interrupted.", <<>>, Null)
    /\ clock' = clock + 2
    /\ UNCHANGED <<timers, halfElapsed>>

ExecuteRealTeleportAlwaysRemote(thrown, slot) ==
    /\ MainScreen /\ ~TokenPanelShown
    /\ Budget(2)
    /\ Len(timers) < MaxTimers
    /\ slot = Len(timers) + 1
    /\ IF thrown THEN DispatchCatch ELSE DispatchRemote
    /\ UNCHANGED <<epoch, gate, ibmToken, ibmAccessToken, authCalls, publ, qml,
                   photos, activeMode>>

\* executeRealTeleport, from the Teleport_Weights button.  `thrown` is whether
\* the body of the try block of lines 118-134 throws; `slot` is where the
\* timer set expires among the pending ones
ExecuteRealTeleport(thrown, slot) ==
    /\ MainScreen /\ ~TokenPanelShown
    /\ Budget(2)
    /\ Len(timers) < MaxTimers
    /\ IF hardwareStatus # "READY"
       THEN /\ ~thrown
            /\ slot \in LocalSlots(timers)
            /\ DegradeToLocal(slot)
       ELSE /\ slot = Len(timers) + 1
            /\ IF thrown THEN DispatchCatch ELSE DispatchRemote
    /\ UNCHANGED <<epoch, gate, ibmToken, ibmAccessToken, authCalls, publ, qml, photos,
                   activeMode>>

RemoteCompleteStaysBusy(bits) ==
    /\ timers # <<>> /\ Head(timers) = "remote"
    /\ timers' = Tail(timers)
    /\ localRegister' = bits
    /\ lastBitstring' = Join(bits)
    /\ qubitWeight' = DampedWeight(bits)
    /\ isTeleporting' = FALSE
    /\ logs' = AddLog(logs, clock, "CORE", "Teleportation Resolved: ",
                      Join(bits), Null)
    /\ clock' = clock + 1
    /\ UNCHANGED <<epoch, gate, link, halfElapsed, qml, photos, activeMode>>

\* the callback of the setTimeout of line 121
RemoteComplete(bits) ==
    /\ timers # <<>> /\ Head(timers) = "remote"
    /\ timers' = Tail(timers)
    /\ localRegister' = bits
    /\ lastBitstring' = Join(bits)
    /\ qubitWeight' = DampedWeight(bits)
    /\ hardwareStatus' = "READY"
    /\ isTeleporting' = FALSE
    /\ logs' = AddLog(logs, clock, "CORE", "Teleportation Resolved: ",
                      Join(bits), Null)
    /\ clock' = clock + 1
    /\ UNCHANGED <<epoch, gate, ibmToken, ibmAccessToken, authCalls, halfElapsed, qml,
                   photos, activeMode>>

LocalCompleteResetsLink(bits) ==
    /\ timers # <<>> /\ Head(timers) \in {"local", "stale"}
    /\ timers' = Tail(timers)
    /\ halfElapsed' = (halfElapsed \/ Head(timers) = "local")
    /\ localRegister' = bits
    /\ lastBitstring' = Join(bits)
    /\ qubitWeight' = DampedWeight(bits)
    /\ hardwareStatus' = "READY"
    /\ isTeleporting' = FALSE
    /\ logs' = AddLog(logs, clock, "SYS", "Local Registry Collapsed.", <<>>, Null)
    /\ clock' = clock + 1
    /\ UNCHANGED <<epoch, gate, ibmToken, ibmAccessToken, authCalls, qml, photos,
                   activeMode>>

\* the callback of the setTimeout of line 144
LocalComplete(bits) ==
    /\ timers # <<>> /\ Head(timers) \in {"local", "stale"}
    /\ timers' = Tail(timers)
    /\ halfElapsed' = (halfElapsed \/ Head(timers) = "local")
    /\ localRegister' = bits
    /\ lastBitstring' = Join(bits)
    /\ qubitWeight' = DampedWeight(bits)
    /\ isTeleporting' = FALSE
    /\ logs' = AddLog(logs, clock, "SYS", "Local Registry Collapsed.", <<>>, Null)
    /\ clock' = clock + 1
    /\ UNCHANGED <<epoch, gate, link, qml, photos, activeMode>>

-----------------------------------------------------------------------------
(* Collaborators: capture, analysis, mode selection, log panel *)

\* Number.prototype.toFixed(4): integer part and four decimals
ToFixed4String(w) == [int |-> w \div 10000, frac |-> w % 10000]

\* captureArtifact, from the shutter button (videoRef.current is set once the
\* main screen is rendered)
CaptureArtifact ==
    /\ MainScreen
    /\ Budget(1)
    /\ Len(photos) < MaxPhotos
    /\ photos' = << [id |-> clock, mode |-> activeMode, bits |-> lastBitstring,
                     weight |-> ToFixed4String(qubitWeight)] >> \o photos
    /\ logs' = AddLog(logs, clock, "SYS", "Registry Locked to Archive: ",
                      lastBitstring, Null)
    /\ clock' = clock + 1
    /\ UNCHANGED <<epoch, gate, link, publ, jobs, qml, activeMode>>

\* the Purge button of line 448
PurgePhoto(i) ==
    /\ MainScreen
    /\ i \in 1 .. Len(photos)
    /\ photos' = SelectSeq(photos, LAMBDA x : x.id # photos[i].id)
    /\ UNCHANGED <<epoch, gate, link, publ, jobs, qml, activeMode, logs, clock>>

\* runDecipher up to the await of line 238
RunDecipher ==
    /\ MainScreen
    /\ Budget(2)
    /\ ~isAnalyzing
    /\ isAnalyzing' = TRUE
    /\ logs' = AddLog(logs, clock, "QML", "Aligning Spectrum Nodes...", <<>>, Null)
    /\ clock' = clock + 1
    /\ decipherCalls' = decipherCalls + 1
    /\ UNCHANGED <<epoch, gate, link, publ, jobs, analysis, photos, activeMode>>

\* lines 243-245 and 249: the reply is read
DecipherReply(text) ==
    /\ decipherCalls > 0
    /\ decipherCalls' = decipherCalls - 1
    /\ analysis' = IF text = Undefined
                   THEN Str(<<"S", "i", "g", "n", "a", "l", " ", "d", "i", "v",
                              "e", "r", "g", "e", "n", "c", "e", ".">>)
                   ELSE text
    /\ logs' = AddLog(logs, clock, "AI", "Spectrum Sync Verified.", <<>>, Null)
    /\ clock' = clock + 1
    /\ isAnalyzing' = FALSE
    /\ UNCHANGED <<epoch, gate, link, publ, jobs, photos, activeMode>>

\* lines 246-249: the fetch or the reading of the reply fails
DecipherFailure ==
    /\ decipherCalls > 0
    /\ decipherCalls' = decipherCalls - 1
    /\ logs' = AddLog(logs, clock, "ERR", "QML Secure Link Timeout.", <<>>, Null)
    /\ clock' = clock + 1
    /\ isAnalyzing' = FALSE
    /\ UNCHANGED <<epoch, gate, link, publ, jobs, analysis, photos, activeMode>>

\* the mode buttons of line 419
SetActiveMode(m) ==
    /\ MainScreen
    /\ activeMode' = m
    /\ UNCHANGED <<epoch, gate, link, publ, jobs, qml, photos, logs, clock>>

ClearLogsResetsSession ==
    /\ MainScreen
    /\ logs' = <<>>
    /\ ibmAccessToken' = Null
    /\ UNCHANGED <<epoch, gate, ibmToken, hardwareStatus, authCalls, publ, jobs,
                   qml, photos, activeMode, clock>>

\* the Clear button of line 369
ClearLogs ==
    /\ MainScreen
    /\ logs' = <<>>
    /\ UNCHANGED <<epoch, gate, link, publ, jobs, qml, photos, activeMode, clock>>

-----------------------------------------------------------------------------
(* Specification *)

UserAction ==
    \/ \E num \in PinDigits : HandlePinEntry(num)
    \/ \E value \in Credentials : SetIbmToken(value)
    \/ ConnectToIBM
    \/ \E thrown \in BOOLEAN, slot \in 1 .. MaxTimers + 1 :
          ExecuteRealTeleport(thrown, slot)
    \/ CaptureArtifact
    \/ \E i \in 1 .. MaxPhotos + 1 : PurgePhoto(i)
    \/ RunDecipher
    \/ \E m \in Modes : SetActiveMode(m)
    \/ ClearLogs

\* the fetch of line 79 settles
AuthSettles ==
    \/ \E i \in 1 .. Len(authCalls), id \in SessionIds : AuthSuccess(i, id)
    \/ \E i \in 1 .. Len(authCalls) : AuthNoId(i)
    \/ \E i \in 1 .. Len(authCalls), http \in {"2xx", "non-2xx"} :
          AuthBodyUnreadable(i, http)
    \/ \E i \in 1 .. Len(authCalls), status \in HttpErrors, errText \in ErrTexts :
          AuthRejected(i, status, errText)
    \/ \E i \in 1 .. Len(authCalls) : AuthUnreachable(i)

\* the timer at the head of the queue fires
TimerFires ==
    \/ \E bits \in RegisterDraws : RemoteComplete(bits)
    \/ \E bits \in RegisterDraws : LocalComplete(bits)

DecipherSettles ==
    \/ \E text \in Replies : DecipherReply(text)
    \/ DecipherFailure

Next ==
    \/ UserAction
    \/ BootComplete
    \/ AuthSettles
    \/ TimerFires
    \/ DecipherSettles

Spec == Init /\ [][Next]_vars

\* timers fire and fetches settle; the user need not act
FairSpec ==
    /\ Spec
    /\ WF_vars(BootComplete)
    /\ WF_vars(AuthSettles)
    /\ WF_vars(TimerFires)
    /\ WF_vars(DecipherSettles)

\* The state after p wrong PINs (four digits each, lines 164-167) have been
\* entered on the lock screen: every one has recorded an 'Invalid Hash.'
\* entry and reset the buffer.
AfterWrongPins(p) ==
    /\ isLocked = TRUE
    /\ pinBuffer = <<>>
    /\ isBooting = FALSE
    /\ bootTimer = FALSE
    /\ ibmToken = <<>>
    /\ ibmAccessToken = Null
    /\ hardwareStatus = "DISCONNECTED"
    /\ authCalls = <<>>
    /\ analysis = Str(<<>>)
    /\ isAnalyzing = FALSE
    /\ decipherCalls = 0
    /\ photos = <<>>
    /\ localRegister = [i \in 1 .. BIT_COUNT |-> 0]
    /\ qubitWeight = 5000
    /\ lastBitstring = <<"0", "0", "0", "0", "0", "0", "0", "0", "0", "0">>
    /\ activeMode = "STANDARD"
    /\ isTeleporting = FALSE
    /\ timers = <<>>
    /\ halfElapsed = FALSE
    /\ logs = [k \in 1 .. p + 1 |->
                 IF k <= p
                 THEN Entry(p + 1 - k, "ERR", "Invalid Hash.", <<>>, Null)
                 ELSE [id |-> 0, type |-> "SEC",
                       msg |-> "Quantum Kernel Locked. Enter PIN.",
                       arg |-> <<>>, details |-> Undefined]]
    /\ clock = p + 1
    /\ epoch = p + 1

\* the program with an Event Log two or three entries short of its capacity
LogInit == \E p \in {LOG_CAPACITY - 3, LOG_CAPACITY - 2} : AfterWrongPins(p)

LogSpec == LogInit /\ [][Next]_vars

TypeOK ==
    /\ hardwareStatus \in {"DISCONNECTED", "AUTHENTICATING", "READY", "BUSY"}
    /\ isLocked \in BOOLEAN /\ isBooting \in BOOLEAN /\ isTeleporting \in BOOLEAN
    /\ Len(logs) <= LOG_CAPACITY

-----------------------------------------------------------------------------
(* Steps and observations used by the properties *)

\* a job request: one run of executeRealTeleport
JobRequest ==
    \E thrown \in BOOLEAN, slot \in 1 .. MaxTimers + 1 :
        ExecuteRealTeleport(thrown, slot)

\* a run of executeRealTeleport whose try block throws
JobDispatchFails ==
    \E slot \in 1 .. MaxTimers + 1 : ExecuteRealTeleport(TRUE, slot)

\* connectToIBM resumes after a 2xx response
Auth2xx ==
    \E i \in 1 .. Len(authCalls) :
        \/ \E id \in SessionIds : AuthSuccess(i, id)
        \/ AuthNoId(i)
        \/ AuthBodyUnreadable(i, "2xx")

\* connectToIBM resumes after a non-2xx response or after the fetch failed
AuthRefused ==
    \E i \in 1 .. Len(authCalls) :
        \/ \E status \in HttpErrors, errText \in ErrTexts :
              AuthRejected(i, status, errText)
        \/ AuthBodyUnreadable(i, "non-2xx")
        \/ AuthUnreachable(i)

\* the entries of the log after a step that the step itself recorded
RecordedNow == { k \in 1 .. Len(logs') : logs'[k].id >= clock }

\* the log after a step is the log before it with n entries put in front,
\* the oldest entries dropped beyond the capacity of 30
Prepended(n) ==
    /\ Len(logs') = Min(30, Len(logs) + n)
    /\ \A k \in n + 1 .. Len(logs') : logs'[k] = logs[k - n]
    /\ RecordedNow = 1 .. n

\* the number of 1-bits of a register
Ones(register) == Cardinality({ i \in DOMAIN register : register[i] = 1 })

\* w, in units of 10^-4, is k / 10 * 0.89867882 rounded to 4 decimals
RoundsTo(w, k) ==
    /\ w * 100000 - k * 89867882 <= 50000
    /\ k * 89867882 - w * 100000 <= 50000

\* a job request that takes the local path
LocalDispatch == JobRequest /\ hardwareStatus # "READY"

\* the completion callback of a local job runs
LocalCompletes == \E bits \in RegisterDraws : LocalComplete(bits)

\* the completion callback of a remote job runs
RemoteCompletes == \E bits \in RegisterDraws : RemoteComplete(bits)

\* a register of exactly 10 digits, each 0 or 1
WellFormed(register) ==
    /\ DOMAIN register = 1 .. 10
    /\ \A i \in 1 .. 10 : register[i] \in {0, 1}

\* the entries at position k of the log and below it (older) that are the
\* WARN entry of a degraded dispatch, or the entry of a local completion
WarnsFrom(k) ==
    Cardinality({ j \in k .. Len(logs) : logs[j].type = "WARN" })
CollapsesFrom(k) ==
    Cardinality({ j \in k .. Len(logs) :
                    logs[j].msg = "Local Registry Collapsed." })

\* the local jobs that are outstanding
PendingLocal ==
    Cardinality({ j \in 1 .. Len(timers) : timers[j] \in {"local", "stale"} })

\* no entry has been cleared or evicted: ids count from 0
LogComplete == Len(logs) = clock

\* the text `needle` occurs in the text `hay`
Contains(hay, needle) ==
    \E i \in 1 .. Len(hay) - Len(needle) + 1 :
        SubSeq(hay, i, i + Len(needle) - 1) = needle

\* the text of an entry that a value is interpolated into: the argument of
\* the message and the details (the message texts themselves are fixed)
Interpolated(entry) ==
    entry.arg \o (IF entry.details.tag = "string" THEN entry.details.chars
                  ELSE <<>>)

\* connectToIBM resumes on its success path
AuthSucceeds ==
    \E i \in 1 .. Len(authCalls), id \in SessionIds : AuthSuccess(i, id)

\* a key of the lock screen is pressed
PinEntry == \E num \in PinDigits : HandlePinEntry(num)

\* the bit string's digits, as numbers
BitsOf(bitstring) ==
    [i \in 1 .. Len(bitstring) |-> IF bitstring[i] = "1" THEN 1 ELSE 0]

-----------------------------------------------------------------------------
(* Properties *)

\* C1: while hardwareStatus is BUSY every further job request is rejected: it
\* starts neither a remote job nor a local simulation (no timer is set, the
\* busy flag and the status are left alone).
C1_NoDispatchWhileBusy ==
    [][(hardwareStatus = "BUSY" /\ JobRequest)
         => UNCHANGED <<timers, isTeleporting, hardwareStatus>>]_vars

\* C2: when a call of executeRealTeleport returns, hardwareStatus is not
\* BUSY: it is READY after a remote-path call and unchanged after a
\* local-path call.
C2_NotBusyAtReturn ==
    [][JobRequest
         => /\ hardwareStatus' # "BUSY"
            /\ hardwareStatus' =
                 (IF hardwareStatus = "READY" THEN "READY" ELSE hardwareStatus)]_vars

\* C3: whenever hardwareStatus is BUSY it is READY again later, whatever
\* the user does in between, provided pending timers fire.
C3_BusyLeadsToReady ==
    (hardwareStatus = "BUSY") ~> (hardwareStatus = "READY")

\* a remote job was dispatched and its completion callback has run
C3_Witness ==
    /\ hardwareStatus = "READY"
    /\ logs # <<>>
    /\ Head(logs).msg = "Teleportation Resolved: "

\* C4: whenever hardwareStatus is AUTHENTICATING it is READY or DISCONNECTED
\* later, whichever way the external call settles.
C4_AuthenticatingLeadsToTerminal ==
    (hardwareStatus = "AUTHENTICATING")
        ~> (hardwareStatus \in {"READY", "DISCONNECTED"})

\* an attempt was started and has ended in the catch block
C4_Witness ==
    /\ hardwareStatus = "DISCONNECTED"
    /\ authCalls = <<>>
    /\ logs # <<>>
    /\ Head(logs).type = "DEBUG"

\* C5 as stated: after every 2xx response connectToIBM ends with status
\* READY and a session identifier stored.
C5_Every2xxEndsReady ==
    [][Auth2xx => /\ hardwareStatus' = "READY"
                  /\ ibmAccessToken'.tag = "string"]_vars

\* C5 as amended: after a 2xx response whose body is read and carries a
\* string identifier, connectToIBM ends with status READY and that
\* identifier stored as ibmAccessToken.
C5_IdentifiedEndsReady ==
    [][\A i \in 1 .. Len(authCalls), id \in SessionIds :
         AuthSuccess(i, id)
           => /\ hardwareStatus' = "READY"
              /\ ibmAccessToken' = Str(id)
              /\ authCalls' = RemoveAt(authCalls, i)]_vars

\* an attempt has ended on the success path
C5_Witness ==
    /\ hardwareStatus = "READY"
    /\ ibmAccessToken \in { Str(id) : id \in SessionIds }
    /\ logs # <<>>
    /\ Head(logs).msg = "Authentication Successful."

\* C6: after a non-2xx response or a failed call connectToIBM ends with
\* status DISCONNECTED, no session identifier stored, and an ERR entry
\* recorded by that attempt in the Event Log.
C6_RefusedEndsDisconnected ==
    [][AuthRefused
         => /\ hardwareStatus' = "DISCONNECTED"
            /\ ibmAccessToken'.tag # "string"
            /\ \E k \in RecordedNow : logs'[k].type = "ERR"]_vars

\* an attempt has ended on the rejection path
C6_Witness ==
    /\ hardwareStatus = "DISCONNECTED"
    /\ authCalls = <<>>
    /\ logs # <<>>
    /\ Head(logs).msg = "IBM Rejected Token"

\* C7: connectToIBM with an empty credential changes nothing but the Event
\* Log, starts no external call and records exactly one entry, an ERR one.
C7_EmptyCredentialOnlyLogs ==
    [][(ConnectToIBM /\ ibmToken = <<>>)
         => /\ UNCHANGED <<hardwareStatus, ibmAccessToken, ibmToken, authCalls,
                           localRegister, lastBitstring, qubitWeight,
                           isTeleporting, timers>>
            /\ Prepended(1)
            /\ logs'[1].type = "ERR"]_vars

\* connectToIBM has run with an empty credential
C7_Witness ==
    /\ logs # <<>>
    /\ Head(logs).msg = "Qiskit Token Required."
    /\ hardwareStatus = "DISCONNECTED"

\* C8: a remote dispatch from READY whose remote step fails ends with
\* status READY, leaves register, bit string and weight as they were, sets
\* no timer that could publish later, and records the 'Job Pipeline
\* Interrupted.' ERR entry.
C8_FailedDispatchKeepsRegister ==
    [][JobDispatchFails
         => /\ hardwareStatus = "READY"
            /\ hardwareStatus' = "READY"
            /\ UNCHANGED <<localRegister, lastBitstring, qubitWeight, timers>>
            /\ \E k \in RecordedNow :
                  /\ logs'[k].type = "ERR"
                  /\ logs'[k].msg = "Job Pipeline Interrupted."]_vars

\* a dispatch has failed
C8_Witness ==
    /\ hardwareStatus = "READY"
    /\ logs # <<>>
    /\ Head(logs).msg = "Job Pipeline Interrupted."

\* C9: the weight recorded in every Artifact is the weight of the bits
\* recorded in it, round(ones / 10 * d, 4), shown with four decimals.
C9_ArtifactWeightOfItsBits ==
    \A n \in 1 .. Len(photos) :
        /\ photos[n].weight.int = 0
        /\ RoundsTo(photos[n].weight.frac, Ones(BitsOf(photos[n].bits)))

\* C10: the weight a job completion publishes is round(k / 10 * d, 4) for
\* the number k of 1-bits of the register published in the same step: 0 for
\* the all-zero register, 0.8987 for the all-one register, within [0, 1);
\* and the derivation gives that value for every k.
C10_PublishedWeightOfRegister ==
    [][TimerFires
         => LET k == Ones(localRegister')
                w == qubitWeight'
            IN  /\ RoundsTo(w, k)
                /\ (k = 0) => (w = 0)
                /\ (k = BIT_COUNT) => (w = 8987)
                /\ 0 <= w /\ w < 10000
                /\ \A j \in 0 .. BIT_COUNT :
                     RoundsTo(DampedWeight([i \in 1 .. BIT_COUNT |->
                                               IF i <= j THEN 1 ELSE 0]), j)]_vars

\* a job has completed with a register of mixed digits
C10_Witness ==
    /\ Ones(localRegister) \notin {0, BIT_COUNT}
    /\ logs # <<>>
    /\ Head(logs).type \in {"CORE", "SYS"}
    /\ Head(logs).msg \in {"Teleportation Resolved: ", "Local Registry Collapsed."}

\* C11: a job that takes the local path publishes on completion a register
\* of exactly 10 digits each 0 or 1, and neither its dispatch nor its
\* completion changes hardwareStatus or the stored session identifier.
C11_LocalPathLeavesLink ==
    [][(LocalDispatch \/ LocalCompletes)
         => /\ UNCHANGED <<hardwareStatus, ibmAccessToken>>
            /\ LocalCompletes => WellFormed(localRegister')]_vars

\* a degraded job has completed while the remote job is still outstanding
C11_Witness ==
    /\ hardwareStatus = "BUSY"
    /\ logs # <<>>
    /\ Head(logs).msg = "Local Registry Collapsed."
    /\ WellFormed(localRegister)
    /\ Ones(localRegister) > 0

\* C12: the Event Log never holds more than 30 entries; a step that calls
\* addLog n times (the clock advances by n) leaves the n new entries in
\* front, newest first, followed by the previous entries in their order
\* with only the oldest dropped; no entry of a handler that calls addLog
\* twice is lost; and the only other change of the log is clearing it.
C12_LogCappedNewestFirst ==
    /\ [](Len(logs) <= 30)
    /\ [][
           /\ clock' # clock
              => /\ Prepended(clock' - clock)
                 /\ \A k \in 1 .. clock' - clock : logs'[k].id = clock' - k
           /\ clock' = clock => (logs' = logs \/ logs' = <<>>)
           /\ (\E i \in 1 .. Len(authCalls) : AuthUnreachable(i))
              => /\ logs'[1].type = "DEBUG"
                 /\ logs'[2].msg = "IBM Bridge Blocked (CORS/Network)"
           /\ JobDispatchFails
              => /\ logs'[1].msg = "Job Pipeline Interrupted."
                 /\ logs'[2].type = "QASM"
         ]_vars

\* a handler that calls addLog twice has run on a full log, and the entry
\* of construction has been evicted
C12_Witness ==
    /\ Len(logs) = 30
    /\ logs[1].type = "DEBUG"
    /\ logs[2].type = "ERR"
    /\ logs[30].id > 0

\* C13: at most one authentication attempt is in flight: there is never
\* more than one external call of connectToIBM that has not completed, and
\* hardwareStatus is AUTHENTICATING exactly while there is one; a call of
\* connectToIBM made in AUTHENTICATING never adds an external call.
C13_OneAttemptInFlight ==
    /\ [](Len(authCalls) <= 1)
    /\ []((hardwareStatus = "AUTHENTICATING") <=> (authCalls # <<>>))
    /\ [][hardwareStatus = "AUTHENTICATING"
             => Len(authCalls') <= Len(authCalls)]_vars

\* a second attempt is in flight after the first one has failed
C13_Witness ==
    /\ hardwareStatus = "AUTHENTICATING"
    /\ Len(authCalls) = 1
    /\ \E k \in 1 .. Len(logs) : logs[k].type = "DEBUG"

\* C14: hardwareStatus and the stored session identifier change only in
\* steps of connectToIBM and of executeRealTeleport and its completion
\* callback; PIN entry and boot, typing the credential, clearing the log,
\* captureArtifact, purging, mode selection, the analysis call and the
\* completion of a local simulation leave both unchanged.
C14_LinkOwnedByAuthAndJobs ==
    [][
        /\ (hardwareStatus' # hardwareStatus \/ ibmAccessToken' # ibmAccessToken)
           => (ConnectToIBM \/ AuthSettles \/ JobRequest \/ RemoteCompletes)
        /\ ( \/ \E num \in PinDigits : HandlePinEntry(num)
             \/ BootComplete
             \/ \E value \in Credentials : SetIbmToken(value)
             \/ ClearLogs
             \/ CaptureArtifact
             \/ \E i \in 1 .. MaxPhotos + 1 : PurgePhoto(i)
             \/ \E m \in Modes : SetActiveMode(m)
             \/ RunDecipher
             \/ DecipherSettles
             \/ LocalCompletes )
           => UNCHANGED <<hardwareStatus, ibmAccessToken>>
      ]_vars

\* with a session stored and a job outstanding, the log has been cleared
\* and an artifact captured in another mode
C14_Witness ==
    /\ hardwareStatus = "BUSY"
    /\ ibmAccessToken.tag = "string"
    /\ photos # <<>>
    /\ activeMode = "HEAT"
    /\ Len(logs) = 1
    /\ logs[1].type = "SYS"

\* C15: isTeleporting is true in every state in which a job is outstanding:
\* whenever hardwareStatus is BUSY and whenever a job timer is pending; so
\* it is false only when no job remains outstanding.
C15_BusyFlagCoversJobs ==
    (hardwareStatus = "BUSY" \/ timers # <<>>) => isTeleporting

\* C16: hardwareStatus changes only along DISCONNECTED -> AUTHENTICATING,
\* AUTHENTICATING -> READY, AUTHENTICATING -> DISCONNECTED, READY -> BUSY and
\* BUSY -> READY; once it is READY or BUSY it is never again DISCONNECTED or
\* AUTHENTICATING; and the completion callback of a remote job runs only in
\* BUSY, which it leaves for READY.
C16_StatusFollowsEdges ==
    [][
        /\ hardwareStatus' # hardwareStatus
           => <<hardwareStatus, hardwareStatus'>> \in
                 { <<"DISCONNECTED", "AUTHENTICATING">>,
                   <<"AUTHENTICATING", "READY">>,
                   <<"AUTHENTICATING", "DISCONNECTED">>,
                   <<"READY", "BUSY">>,
                   <<"BUSY", "READY">> }
        /\ hardwareStatus \in {"READY", "BUSY"}
           => hardwareStatus' \in {"READY", "BUSY"}
        /\ RemoteCompletes
           => (hardwareStatus = "BUSY" /\ hardwareStatus' = "READY")
      ]_vars

\* a rejected attempt, a successful one and a remote job have gone by
C16_Witness ==
    /\ hardwareStatus = "READY"
    /\ logs # <<>>
    /\ Head(logs).msg = "Teleportation Resolved: "
    /\ \E k \in 1 .. Len(logs) : logs[k].msg = "IBM Rejected Token"

\* C17: in every reachable state the published register has exactly 10
\* elements, each 0 or 1, and lastBitstring is the concatenation of its
\* digits in order; register, bit string and weight change only in a
\* completion step, which replaces the three together.
C17_PublishedTripleConsistent ==
    /\ [](/\ WellFormed(localRegister)
          /\ Len(lastBitstring) = 10
          /\ \A i \in 1 .. 10 :
                lastBitstring[i] = (IF localRegister[i] = 1 THEN "1" ELSE "0"))
    /\ [][
           /\ (\/ localRegister' # localRegister
               \/ lastBitstring' # lastBitstring
               \/ qubitWeight' # qubitWeight) => TimerFires
           /\ TimerFires
              => /\ \E bits \in RegisterDraws :
                       /\ localRegister' = bits
                       /\ BitsOf(lastBitstring') = bits
                 /\ RoundsTo(qubitWeight', Ones(localRegister'))
         ]_vars

\* a local job and the remote job it overlapped have both completed
C17_Witness ==
    /\ timers = <<>>
    /\ Len(logs) >= 2
    /\ logs[1].msg = "Teleportation Resolved: "
    /\ logs[1].arg = lastBitstring
    /\ logs[2].msg = "Local Registry Collapsed."
    /\ Ones(localRegister) \notin {0, BIT_COUNT}

\* C18: a job request that finds the link not READY records exactly one
\* entry, a WARN one, at dispatch, before anything is published; the
\* completion of a local job records a separate SYS entry 'Local Registry
\* Collapsed.'; as long as nothing was cleared or evicted, below every
\* completion entry there are at least as many WARN entries as completion
\* entries (each local job's WARN entry lies below its completion entry) and
\* every WARN entry belongs to a completed or an outstanding local job; a
\* remote-path job records no WARN entry at dispatch or completion.
C18_WarnBelowLocalCompletion ==
    /\ [](LogComplete
            => /\ \A k \in 1 .. Len(logs) : WarnsFrom(k) >= CollapsesFrom(k)
               /\ WarnsFrom(1) = CollapsesFrom(1) + PendingLocal)
    /\ [][
           /\ LocalDispatch
              => /\ Prepended(1)
                 /\ logs'[1].type = "WARN"
                 /\ Len(timers') = Len(timers) + 1
                 /\ UNCHANGED <<localRegister, lastBitstring, qubitWeight>>
           /\ LocalCompletes
              => /\ Prepended(1)
                 /\ logs'[1].type = "SYS"
                 /\ logs'[1].msg = "Local Registry Collapsed."
           /\ ((JobRequest /\ hardwareStatus = "READY") \/ RemoteCompletes)
              => \A k \in RecordedNow : logs'[k].type # "WARN"
         ]_vars

\* a degraded job has completed and both its entries are in the log
C18_Witness ==
    /\ LogComplete
    /\ logs[1].msg = "Local Registry Collapsed."
    /\ logs[1].type = "SYS"
    /\ WarnsFrom(2) = 1
    /\ PendingLocal = 0

\* C19: the entries connectToIBM records on its success path do not contain
\* the credential: the entry recorded before the external call has no
\* interpolated text, and the success entry is the only entry recorded by
\* the success step, its details being 'Access_ID: ', at most the first 8
\* characters of the stored session identifier, and '...'.
C19_SuccessEntryHidesCredential ==
    [][
        /\ (ConnectToIBM /\ ibmToken # <<>>)
           => /\ RecordedNow = {1}
              /\ Interpolated(logs'[1]) = <<>>
        /\ AuthSucceeds
           => LET id == ibmAccessToken'.chars
                  shown == logs'[1].details.chars
                  preview == SubSeq(shown, 12, Len(shown) - 3)
              IN  /\ RecordedNow = {1}
                  /\ logs'[1].arg = <<>>
                  /\ SubSeq(shown, 1, 11) = AccessIdPrefix
                  /\ SubSeq(shown, Len(shown) - 2, Len(shown)) = Ellipsis
                  /\ Len(preview) <= 8
                  /\ Len(preview) = (IF Len(id) < 8 THEN Len(id) ELSE 8)
                  /\ preview = SubSeq(id, 1, Len(preview))
                  /\ ~Contains(Interpolated(logs'[1]), authCalls[1].apiToken)
      ]_vars

\* an attempt has succeeded with an identifier longer than the preview
C19_Witness ==
    /\ hardwareStatus = "READY"
    /\ ibmAccessToken.tag = "string"
    /\ Len(ibmAccessToken.chars) > 8
    /\ logs # <<>>
    /\ Head(logs).details.tag = "string"
    /\ Len(Head(logs).details.chars) = 22
    /\ ibmToken # <<>>

\* C20: the buffer never holds more than 4 digits and collects the digits
\* entered since its last reset; a fourth digit that does not complete 5280
\* empties the buffer and leaves the gate locked and not booting; the gate
\* boots and opens only with 5280 in the buffer; and while the gate is
\* locked or booting no step of connectToIBM or of a job is taken and none
\* is outstanding.
C20_GateOpensOnlyOnPin ==
    /\ [](/\ Len(pinBuffer) <= 4
          /\ (isBooting \/ ~isLocked) => pinBuffer = <<"5", "2", "8", "0">>
          /\ (isBooting \/ isLocked)
             => /\ hardwareStatus = "DISCONNECTED"
                /\ authCalls = <<>>
                /\ timers = <<>>
                /\ ~isTeleporting)
    /\ [][
           /\ \A num \in PinDigits :
                 HandlePinEntry(num)
                   => LET entered == pinBuffer \o <<DigitChar(num)>> IN
                      /\ isLocked /\ isLocked'
                      /\ IF Len(pinBuffer) = 4 THEN UNCHANGED pinBuffer
                         ELSE IF Len(entered) < 4 THEN
                              pinBuffer' = entered /\ ~isBooting'
                         ELSE IF entered = <<"5", "2", "8", "0">> THEN
                              pinBuffer' = entered /\ isBooting'
                         ELSE pinBuffer' = <<>> /\ ~isBooting'
           /\ (isLocked /\ ~isLocked')
              => (BootComplete /\ pinBuffer = <<"5", "2", "8", "0">>)
           /\ (ConnectToIBM \/ AuthSettles \/ JobRequest \/ TimerFires)
              => (~isLocked /\ ~isBooting)
         ]_vars

\* the gate has opened after a wrong PIN and then the right one
C20_Witness ==
    /\ ~isLocked /\ ~isBooting
    /\ pinBuffer = ACCESS_PIN
    /\ \E k \in 1 .. Len(logs) : logs[k].msg = "Invalid Hash."
    /\ \E k \in 1 .. Len(logs) : logs[k].msg = "Nexus Handshake: Verified."

=============================================================================
